---- MODULE Spec2Model ----
(***************************************************************************)
(* Model of netdev/cisco/cisco_asa.py: the CiscoAsa session overlay.       *)
(*                                                                         *)
(* Text (prompts, commands, device output, patterns) is modelled as a      *)
(* sequence of one-character strings, so that slicing, splitting,          *)
(* substring search and escaping are computed as Python computes them.     *)
(* The base class (CiscoLikeDevice) is not part of the modelled file: its  *)
(* coroutines _establish_connection, _find_prompt, _enable,                *)
(* _disable_paging and send_command are the environment; each either       *)
(* returns a value chosen from a bounded set or raises.                    *)
(* One action is one resumption of the running coroutine: from the await   *)
(* it is suspended in up to the next await (or to its return / raise).     *)
(***************************************************************************)
EXTENDS Integers, Sequences, FiniteSets, TLC

VARIABLES
  base_prompt,      \* self._base_prompt
  current_context,  \* self._current_context
  base_pattern,     \* self._base_pattern
  multiple_mode,    \* self._multiple_mode
  pc,               \* the await the running coroutine is suspended in, or "idle"
  op,               \* the method last called: "none", "connect", "send_command",
                    \* "get_default_command"
  command_string,   \* send_command's argument (NoValue outside send_command)
  strip_prompt,     \* send_command's argument
  strip_command,    \* send_command's argument
  output,           \* send_command's local: what the base send_command returned
  prompt,           \* _set_base_prompt's local: what _find_prompt returned
  base_args,        \* arguments the base send_command was called with
  retval,           \* value the public coroutine returned to its caller
  error,            \* exception the public coroutine raised, or NoError
  log,              \* collaborator calls and returns of the running public coroutine
  pre,              \* the four fields as they were when the public coroutine was called
  connected,        \* the last connect() completed
  lookup,           \* the last _get_default_command call made while no coroutine runs
  sess,             \* several CiscoAsa objects: the four fields of each
  task              \* several callers: the object, coroutine, await and locals of each

vars == << base_prompt, current_context, base_pattern, multiple_mode, pc, op,
           command_string, strip_prompt, strip_command, output, prompt,
           base_args, retval, error, log, pre, connected, lookup, sess, task >>

\* The variables of the one-caller, one-object specification.
seq_vars == << base_prompt, current_context, base_pattern, multiple_mode, pc, op,
              command_string, strip_prompt, strip_command, output, prompt,
              base_args, retval, error, log, pre, connected, lookup >>

\* The variables of the specification with several callers and objects.
conc_vars == << sess, task >>

-----------------------------------------------------------------------------
(* Bounds and input sets *)

MaxPromptLen == 3

Chars == {"a", "/", "#"}

\* An unbound local / None.
NoValue == << "<none>" >>

NoError == [step |-> "none", kind |-> "none"]

\* Exceptions a collaborator coroutine may raise.
Errors == {"TimeoutError", "DisconnectError"}

\* "system"
SystemContext == << "s","y","s","t","e","m" >>

\* "changet"
ChangetMarker == << "c","h","a","n","g","e","t" >>

\* "multiple"
MultipleWord == << "m","u","l","t","i","p","l","e" >>

\* 'show mode'
ShowMode == << "s","h","o","w"," ","m","o","d","e" >>

\* "changeto context admin"
CmdChangeto == << "c","h","a","n","g","e","t","o"," ","c","o","n","t","e","x","t",
                  " ","a","d","m","i","n" >>

\* "show run | i changeto": mentions the marker without changing context
CmdMention == << "s","h","o","w"," ","r","u","n"," ","|"," ","i"," ",
                 "c","h","a","n","g","e","t","o" >>

\* "change": a proper prefix of the marker
CmdNearMiss == << "c","h","a","n","g","e" >>

Commands == {ShowMode, CmdChangeto, CmdMention, CmdNearMiss}

\* "mode: multiple"
OutMultiple == << "m","o","d","e",":"," ","m","u","l","t","i","p","l","e" >>

\* "mode: single"
OutSingle == << "m","o","d","e",":"," ","s","i","n","g","l","e" >>

Outputs == {OutMultiple, OutSingle, << >>}

\* Prompts of realistic shape, beyond the enumerated short ones.
PromptAsa == << "c","i","s","c","o","a","s","a","#" >>
PromptAsaUser == << "c","i","s","c","o","a","s","a",">" >>
PromptAsaAdmin == << "c","i","s","c","o","a","s","a","/","a","d","m","i","n","#" >>
PromptAsaSub == << "c","i","s","c","o","a","s","a","/","a","d","m","i","n",
                   "(","c","o","n","f","i","g",")","#" >>
PromptLongA == << "c","i","s","c","o","a","s","a","-","f","w","-","0","1","/","c","1","#" >>
PromptLongB == << "c","i","s","c","o","a","s","a","-","f","w","-","0","2","#" >>
PromptTwoSlash == << "f","w","/","a","/","b","#" >>
PromptNoDelim == << "c","i","s","c","o","a","s","a" >>

NamedPrompts == {PromptAsa, PromptAsaUser, PromptAsaAdmin, PromptAsaSub,
                 PromptLongA, PromptLongB, PromptTwoSlash, PromptNoDelim}

\* What _find_prompt may return: every non-empty text over Chars up to
\* MaxPromptLen, and the named prompts.
RawPrompts == (UNION {[1..n -> Chars] : n \in 1..MaxPromptLen}) \cup NamedPrompts

-----------------------------------------------------------------------------
(* Python text primitives *)

\* needle in haystack
Contains(haystack, needle) ==
  \E i \in 0..(Len(haystack) - Len(needle)) :
     SubSeq(haystack, i + 1, i + Len(needle)) = needle

\* s[:-1]
ButLast(s) == SubSeq(s, 1, Len(s) - 1)

\* s[:n]
Take(s, n) == SubSeq(s, 1, IF Len(s) < n THEN Len(s) ELSE n)

\* s.split(sep) for a one-character separator: the list of parts
RECURSIVE Split(_, _)
Split(s, sep) ==
  IF \A i \in 1..Len(s) : s[i] # sep
  THEN << s >>
  ELSE LET i == CHOOSE k \in 1..Len(s) :
                   /\ s[k] = sep
                   /\ \A j \in 1..(k - 1) : s[j] # sep
       IN  << SubSeq(s, 1, i - 1) >> \o Split(SubSeq(s, i + 1, Len(s)), sep)

\* Characters re.escape prefixes with a backslash (Python 3.7 and later).
ReSpecial == {"(", ")", "[", "]", "{", "}", "?", "*", "+", "-", "|", "^", "$",
              "\\", ".", "&", "~", "#", " "}

Range(f) == {f[i] : i \in DOMAIN f}

\* re.escape(s)
RECURSIVE ReEscape(_)
ReEscape(s) ==
  IF s = << >> THEN << >>
  ELSE (IF Head(s) \in ReSpecial THEN << "\\", Head(s) >> ELSE << Head(s) >>)
       \o ReEscape(Tail(s))

-----------------------------------------------------------------------------
(* _get_default_command *)

CommandNames == {"delimeter1", "delimeter2", "pattern", "disable_paging",
                 "priv_enter", "priv_exit", "config_enter", "config_exit",
                 "config_check", "check_config_mode"}

\* Names that are not keys of command_mapper.
UnknownNames == {"delimiter1", "paging", ""}

\* Raised by command_mapper[command] for a key that is not in the mapping.
KeyError == << "<KeyError>" >>

command_mapper ==
  [ delimeter1 |-> << ">" >>,
    delimeter2 |-> << "#" >>,
    pattern |-> << "{","}",".","*","?","(","\\","(",".","*","?","\\",")",")","?",
                   "[","{","}","|","{","}","]" >>,
    disable_paging |-> << "t","e","r","m","i","n","a","l"," ","p","a","g","e","r"," ","0" >>,
    priv_enter |-> << "e","n","a","b","l","e" >>,
    priv_exit |-> << "d","i","s","a","b","l","e" >>,
    config_enter |-> << "c","o","n","f"," ","t" >>,
    config_exit |-> << "e","n","d" >>,
    config_check |-> << ")","#" >>,
    check_config_mode |-> << ")","#" >> ]

\* Variant: command_mapper.get(command, ''): an unknown name gives ''.
GetDefaultCommand_default(command) ==
  IF command \in DOMAIN command_mapper THEN command_mapper[command] ELSE << >>

GetDefaultCommand(command) ==
  IF command \in DOMAIN command_mapper THEN command_mapper[command] ELSE KeyError

-----------------------------------------------------------------------------
(* _set_base_prompt: the parse of the raw prompt *)

PrefixLen == 12

\* The fixed middle of the pattern: .*(\/\w+)?(\(.*?\))?[
PatternMiddle == << ".","*","(","\\","/","\\","w","+",")","?",
                    "(","\\","(",".","*","?","\\",")",")","?","[" >>

\* Variant: the character class is built from delimeter1 twice.
BasePattern_sameDelimiter(bp) ==
  ReEscape(Take(bp, PrefixLen)) \o PatternMiddle
    \o ReEscape(GetDefaultCommand("delimeter1")) \o << "|" >>
    \o ReEscape(GetDefaultCommand("delimeter1")) \o << "]" >>

\* Variant: the new pattern is appended to the old one (+= instead of =).
BasePattern_accumulates(bp) ==
  base_pattern \o ReEscape(Take(bp, PrefixLen)) \o PatternMiddle
    \o ReEscape(GetDefaultCommand("delimeter1")) \o << "|" >>
    \o ReEscape(GetDefaultCommand("delimeter2")) \o << "]" >>

\* Variant: the whole base prompt is escaped, without [:12].
BasePattern_untruncated(bp) ==
  ReEscape(bp) \o PatternMiddle
    \o ReEscape(GetDefaultCommand("delimeter1")) \o << "|" >>
    \o ReEscape(GetDefaultCommand("delimeter2")) \o << "]" >>

\* r"{}.*(\/\w+)?(\(.*?\))?[{}|{}]".format(re.escape(base_prompt[:12]),
\*                                         re.escape(delimeter1), re.escape(delimeter2))
BasePattern(bp) ==
  ReEscape(Take(bp, PrefixLen)) \o PatternMiddle
    \o ReEscape(GetDefaultCommand("delimeter1")) \o << "|" >>
    \o ReEscape(GetDefaultCommand("delimeter2")) \o << "]" >>

\* Variant: the slash-free branch forgets prompt[:-1].
ParsePrompt_keepsDelimiter(raw) ==
  IF \E i \in 1..Len(raw) : raw[i] = "/"
  THEN LET parts == Split(ButLast(raw), "/")
       IN  IF Len(parts) = 2
           THEN [ok |-> TRUE, prompt |-> parts[1], context |-> parts[2]]
           ELSE [ok |-> FALSE, prompt |-> NoValue, context |-> NoValue]
  ELSE [ok |-> TRUE, prompt |-> raw, context |-> SystemContext]

\* Variant: splits prompt instead of prompt[:-1].
ParsePrompt_splitBeforeStrip(raw) ==
  IF \E i \in 1..Len(raw) : raw[i] = "/"
  THEN LET parts == Split(raw, "/")
       IN  IF Len(parts) = 2
           THEN [ok |-> TRUE, prompt |-> parts[1], context |-> parts[2]]
           ELSE [ok |-> FALSE, prompt |-> NoValue, context |-> NoValue]
  ELSE [ok |-> TRUE, prompt |-> ButLast(raw), context |-> SystemContext]

\* Variant: context starts from self._current_context instead of 'system'.
ParsePrompt_staleContext(raw) ==
  IF \E i \in 1..Len(raw) : raw[i] = "/"
  THEN LET parts == Split(ButLast(raw), "/")
       IN  IF Len(parts) = 2
           THEN [ok |-> TRUE, prompt |-> parts[1], context |-> parts[2]]
           ELSE [ok |-> FALSE, prompt |-> NoValue, context |-> NoValue]
  ELSE [ok |-> TRUE, prompt |-> ButLast(raw), context |-> current_context]

\* Lines 70-75: the (prompt, context) pair, or the ValueError of unpacking a
\* list whose length is not two.
ParsePrompt(raw) ==
  IF \E i \in 1..Len(raw) : raw[i] = "/"
  THEN LET parts == Split(ButLast(raw), "/")
       IN  IF Len(parts) = 2
           THEN [ok |-> TRUE, prompt |-> parts[1], context |-> parts[2]]
           ELSE [ok |-> FALSE, prompt |-> NoValue, context |-> NoValue]
  ELSE [ok |-> TRUE, prompt |-> ButLast(raw), context |-> SystemContext]

-----------------------------------------------------------------------------
(* send_command and _check_multiple_mode: the pure parts *)

\* Variant: every command refreshes the prompt.
NeedsRefresh_always(cmd) == TRUE

\* Variant: command_string.startswith("changet")
NeedsRefresh_startswith(cmd) == Take(cmd, Len(ChangetMarker)) = ChangetMarker

\* Line 55: "changet" in command_string
NeedsRefresh(cmd) == Contains(cmd, ChangetMarker)

\* Variant: the prompt read by the refresh is appended to the output.
SendCommandReturn_appendsPrompt(out, raw) == IF raw = NoValue THEN out ELSE out \o raw

\* Line 57: return output
SendCommandReturn(out, raw) == out

\* Lines 93-94: if 'multiple' in out: self._multiple_mode = True
CheckMultipleMode(out, old) == IF Contains(out, MultipleWord) THEN TRUE ELSE old

-----------------------------------------------------------------------------
(* State machine *)

\* No _get_default_command call has been made since the last coroutine call.
NoLookup == [command |-> "<none>", value |-> NoValue, raised |-> "none"]

\* The objects and the callers of the specification with several of them.
Sessions == {1, 2}
Tasks == {1, 2}

\* __init__ (lines 12-18) of one object.
NewSession == [base_prompt |-> << >>, current_context |-> SystemContext,
               base_pattern |-> << >>, multiple_mode |-> FALSE, connected |-> FALSE]

\* A caller that uses object s and has not called anything yet.
\* awaiting: the collaborator coroutines the caller has started and that have
\* not returned yet (empty when no coroutine of the caller runs).
NewTask(s) == [session |-> s, awaiting |-> {}, op |-> "none", command_string |-> NoValue,
               output |-> NoValue, prompt |-> NoValue, error |-> "none"]

Fields == [base_prompt |-> base_prompt, current_context |-> current_context,
           base_pattern |-> base_pattern, multiple_mode |-> multiple_mode]

\* __init__ (lines 12-18); _base_prompt and _base_pattern start empty.
Init ==
  /\ base_prompt = << >>
  /\ current_context = SystemContext
  /\ base_pattern = << >>
  /\ multiple_mode = FALSE
  /\ pc = "idle"
  /\ op = "none"
  /\ command_string = NoValue
  /\ strip_prompt = TRUE
  /\ strip_command = TRUE
  /\ output = NoValue
  /\ prompt = NoValue
  /\ base_args = NoValue
  /\ retval = NoValue
  /\ error = NoError
  /\ log = << >>
  /\ pre = [base_prompt |-> << >>, current_context |-> SystemContext,
            base_pattern |-> << >>, multiple_mode |-> FALSE]
  /\ connected = FALSE
  /\ lookup = NoLookup
  /\ sess = [s \in Sessions |-> NewSession]
  /\ task = [t \in Tasks |-> NewTask(1)]

\* connect() is called: runs to the first await (line 41).
Connect ==
  /\ pc = "idle"
  /\ lookup' = NoLookup
  /\ UNCHANGED conc_vars
  /\ op' = "connect"
  /\ pc' = "establish_connection"
  /\ log' = << "call:establish_connection" >>
  /\ pre' = Fields
  /\ connected' = FALSE
  /\ command_string' = NoValue
  /\ strip_prompt' = TRUE
  /\ strip_command' = TRUE
  /\ output' = NoValue
  /\ prompt' = NoValue
  /\ base_args' = NoValue
  /\ retval' = NoValue
  /\ error' = NoError
  /\ UNCHANGED << base_prompt, current_context, base_pattern, multiple_mode >>

\* _establish_connection returned: connect goes on to _set_base_prompt, which
\* awaits _find_prompt (lines 42, 69).
EstablishConnectionDone ==
  /\ pc = "establish_connection"
  /\ UNCHANGED lookup
  /\ UNCHANGED conc_vars
  /\ pc' = "find_prompt"
  /\ log' = log \o << "ret:establish_connection", "call:find_prompt" >>
  /\ UNCHANGED << base_prompt, current_context, base_pattern, multiple_mode, op,
                  command_string, strip_prompt, strip_command, output, prompt,
                  base_args, retval, error, pre, connected >>

\* Variant: send_command itself updates the mode when the command is 'show mode'.
SendCommandReturns_modeOnShowMode(events) ==
  LET out == SendCommandReturn(output', prompt')
  IN  /\ pc' = "idle"
      /\ error' = NoError
      /\ IF op = "connect"
         THEN /\ multiple_mode' = CheckMultipleMode(out, multiple_mode)
              /\ retval' = NoValue
              /\ connected' = TRUE
              /\ log' = log \o events \o << "check_multiple_mode" >>
         ELSE /\ multiple_mode' = (IF command_string = ShowMode
                                    THEN CheckMultipleMode(out, multiple_mode)
                                    ELSE multiple_mode)
              /\ retval' = out
              /\ connected' = connected
              /\ log' = log \o events

\* Variant: every send_command ends with the mode check.
SendCommandReturns_rechecksMode(events) ==
  LET out == SendCommandReturn(output', prompt')
  IN  /\ pc' = "idle"
      /\ error' = NoError
      /\ multiple_mode' = CheckMultipleMode(out, multiple_mode)
      /\ retval' = (IF op = "connect" THEN NoValue ELSE out)
      /\ connected' = (IF op = "connect" THEN TRUE ELSE connected)
      /\ log' = log \o events \o << "check_multiple_mode" >>

\* send_command returns to its caller (line 57): to the caller of the session,
\* or to _check_multiple_mode (lines 92-96), after which connect returns.
\* Uses the new values of output and prompt.
SendCommandReturns(events) ==
  LET out == SendCommandReturn(output', prompt')
  IN  /\ pc' = "idle"
      /\ error' = NoError
      /\ IF op = "connect"
         THEN /\ multiple_mode' = CheckMultipleMode(out, multiple_mode)
              /\ retval' = NoValue
              /\ connected' = TRUE
              /\ log' = log \o events \o << "check_multiple_mode" >>
         ELSE /\ multiple_mode' = multiple_mode
              /\ retval' = out
              /\ connected' = connected
              /\ log' = log \o events

\* Variant: self._base_prompt is assigned before the split is unpacked.
ParseRaises_partialUpdate(raw) ==
  /\ pc' = "idle"
  /\ error' = [step |-> "set_base_prompt", kind |-> "ValueError"]
  /\ log' = log \o << "ret:find_prompt" >>
  /\ base_prompt' = ButLast(raw)
  /\ UNCHANGED << current_context, base_pattern, multiple_mode, retval, connected >>

\* The unpacking on line 73 raises ValueError: lines 76-81 do not run, no
\* field is assigned, the exception leaves the public coroutine.
ParseRaises(raw) ==
  /\ pc' = "idle"
  /\ error' = [step |-> "set_base_prompt", kind |-> "ValueError"]
  /\ log' = log \o << "ret:find_prompt" >>
  /\ UNCHANGED << base_prompt, current_context, base_pattern,
                  multiple_mode, retval, connected >>

\* _find_prompt returned raw (line 69): the rest of _set_base_prompt runs
\* (lines 70-85), then its caller goes on: connect to _enable (line 43),
\* send_command to its return (line 57).
FindPromptDone ==
  /\ pc = "find_prompt"
  /\ UNCHANGED lookup
  /\ UNCHANGED conc_vars
  /\ \E raw \in RawPrompts :
       LET r == ParsePrompt(raw)
       IN  /\ prompt' = raw
           /\ output' = output
           /\ IF r.ok
              THEN /\ base_prompt' = r.prompt
                   /\ current_context' = r.context
                   /\ base_pattern' = BasePattern(r.prompt)
                   /\ IF command_string = NoValue
                      THEN /\ pc' = "enable"
                           /\ log' = log \o << "ret:find_prompt", "set_base_prompt",
                                               "call:enable" >>
                           /\ UNCHANGED << multiple_mode, retval, error, connected >>
                      ELSE SendCommandReturns(<< "ret:find_prompt", "set_base_prompt" >>)
              ELSE ParseRaises(raw)
  /\ UNCHANGED << op, command_string, strip_prompt, strip_command, base_args, pre >>

\* _enable returned: connect awaits _disable_paging (line 44).
EnableDone ==
  /\ pc = "enable"
  /\ UNCHANGED lookup
  /\ UNCHANGED conc_vars
  /\ pc' = "disable_paging"
  /\ log' = log \o << "ret:enable", "call:disable_paging" >>
  /\ UNCHANGED << base_prompt, current_context, base_pattern, multiple_mode, op,
                  command_string, strip_prompt, strip_command, output, prompt,
                  base_args, retval, error, pre, connected >>

\* _disable_paging returned: connect awaits _check_multiple_mode, which awaits
\* self.send_command('show mode'), which awaits the base send_command
\* (lines 45, 92, 53).
DisablePagingDone ==
  /\ pc = "disable_paging"
  /\ UNCHANGED lookup
  /\ UNCHANGED conc_vars
  /\ pc' = "send_command"
  /\ command_string' = ShowMode
  /\ strip_prompt' = TRUE
  /\ strip_command' = TRUE
  /\ base_args' = << ShowMode, TRUE, TRUE >>
  /\ log' = log \o << "ret:disable_paging", "call:send_command" >>
  /\ UNCHANGED << base_prompt, current_context, base_pattern, multiple_mode, op,
                  output, prompt, retval, error, pre, connected >>

\* send_command(cmd, sp, sc) is called on a connected session: runs to the
\* await of the base send_command (line 53).
SendCommand ==
  /\ pc = "idle"
  /\ lookup' = NoLookup
  /\ UNCHANGED conc_vars
  /\ connected
  /\ \E cmd \in Commands, sp \in BOOLEAN, sc \in BOOLEAN :
       /\ command_string' = cmd
       /\ strip_prompt' = sp
       /\ strip_command' = sc
       /\ base_args' = << cmd, sp, sc >>
  /\ op' = "send_command"
  /\ pc' = "send_command"
  /\ log' = << "call:send_command" >>
  /\ pre' = Fields
  /\ output' = NoValue
  /\ prompt' = NoValue
  /\ retval' = NoValue
  /\ error' = NoError
  /\ UNCHANGED << base_prompt, current_context, base_pattern, multiple_mode, connected >>

\* The base send_command returned out (line 53): the marker test (line 55)
\* sends send_command into _set_base_prompt or to its return.
SendCommandBaseDone ==
  /\ pc = "send_command"
  /\ UNCHANGED lookup
  /\ UNCHANGED conc_vars
  /\ \E out \in Outputs : output' = out
  /\ prompt' = prompt
  /\ IF NeedsRefresh(command_string)
     THEN /\ pc' = "find_prompt"
          /\ log' = log \o << "ret:send_command", "call:find_prompt" >>
          /\ UNCHANGED << multiple_mode, retval, error, connected >>
     ELSE SendCommandReturns(<< "ret:send_command" >>)
  /\ UNCHANGED << base_prompt, current_context, base_pattern, op, command_string,
                  strip_prompt, strip_command, base_args, pre >>

\* The awaited collaborator coroutine raises: nothing catches, the exception
\* leaves the public coroutine.
StepRaises ==
  /\ pc # "idle"
  /\ UNCHANGED lookup
  /\ UNCHANGED conc_vars
  /\ \E e \in Errors : error' = [step |-> pc, kind |-> e]
  /\ pc' = "idle"
  /\ log' = log \o << "raise:" \o pc >>
  /\ UNCHANGED << base_prompt, current_context, base_pattern, multiple_mode, op,
                  command_string, strip_prompt, strip_command, output, prompt,
                  base_args, retval, pre, connected >>

\* _get_default_command(command) is called while no coroutine of the object
\* runs (lines 98-119): it returns the literal or raises KeyError; no field
\* is read or written. Like the coroutines, the call starts from unbound
\* locals.
Lookup ==
  /\ pc = "idle"
  /\ \E command \in CommandNames \cup UnknownNames :
       LET r == GetDefaultCommand(command)
       IN  lookup' = IF r = KeyError
                     THEN [command |-> command, value |-> NoValue, raised |-> "KeyError"]
                     ELSE [command |-> command, value |-> r, raised |-> "none"]
  /\ op' = "get_default_command"
  /\ pc' = "idle"
  /\ log' = << >>
  /\ pre' = Fields
  /\ command_string' = NoValue
  /\ strip_prompt' = TRUE
  /\ strip_command' = TRUE
  /\ output' = NoValue
  /\ prompt' = NoValue
  /\ base_args' = NoValue
  /\ retval' = NoValue
  /\ error' = NoError
  /\ UNCHANGED << base_prompt, current_context, base_pattern, multiple_mode, connected >>
  /\ UNCHANGED conc_vars

Next ==
  \/ Lookup
  \/ Connect
  \/ EstablishConnectionDone
  \/ FindPromptDone
  \/ EnableDone
  \/ DisablePagingDone
  \/ SendCommand
  \/ SendCommandBaseDone
  \/ StepRaises

Spec == Init /\ [][Next]_vars

-----------------------------------------------------------------------------
(* Several callers and several objects.                                     *)
(* Each caller is an asyncio task running connect() or send_command() on    *)
(* its object; the tasks interleave at their awaits. The class takes no     *)
(* lock and the base coroutines are awaited as soon as they are called.     *)

ConcPrompts == {PromptAsa, PromptAsaAdmin, PromptTwoSlash}
ConcCommands == {CmdChangeto, CmdNearMiss}
ConcOutputs == {OutMultiple, OutSingle}

\* Variant: the fields are class attributes, shared by all objects.
FieldOwner_classAttribute(s) == 1

\* The object whose fields a method running on object s reads and writes: self.
FieldOwner(s) == s

\* Variant: the refresh is started together with the base send.
SendCommandAwaits_gathersRefresh(cmd) ==
  IF NeedsRefresh(cmd) THEN {"send_command", "find_prompt"} ELSE {"send_command"}

\* Line 53: send_command first awaits the base send_command, and only that.
SendCommandAwaits(cmd) == {"send_command"}

ConcInit ==
  /\ base_prompt = << >>
  /\ current_context = SystemContext
  /\ base_pattern = << >>
  /\ multiple_mode = FALSE
  /\ pc = "idle"
  /\ op = "none"
  /\ command_string = NoValue
  /\ strip_prompt = TRUE
  /\ strip_command = TRUE
  /\ output = NoValue
  /\ prompt = NoValue
  /\ base_args = NoValue
  /\ retval = NoValue
  /\ error = NoError
  /\ log = << >>
  /\ pre = [base_prompt |-> << >>, current_context |-> SystemContext,
            base_pattern |-> << >>, multiple_mode |-> FALSE]
  /\ connected = FALSE
  /\ lookup = NoLookup
  /\ sess = [s \in Sessions |-> NewSession]
  /\ \E binding \in [Tasks -> Sessions] : task = [t \in Tasks |-> NewTask(binding[t])]

\* What caller t awaits after the await of done returned and the awaits of
\* started began.
Resume(t, done, started) ==
  (task[t].awaiting \ {done}) \cup started

\* The fields after send_command returned out to its caller: connect's
\* _check_multiple_mode assigns (lines 93-94), another caller does not.
AfterSendCommand(ss, t, out) ==
  LET o == FieldOwner(task[t].session)
  IN  IF task[t].op = "connect"
      THEN [ss EXCEPT ![o].multiple_mode = CheckMultipleMode(out, ss[o].multiple_mode),
                      ![o].connected = TRUE]
      ELSE ss

TConnect(t) ==
  /\ task[t].awaiting = {}
  /\ task' = [task EXCEPT ![t] = [NewTask(task[t].session) EXCEPT
                                    !.op = "connect",
                                    !.awaiting = {"establish_connection"}]]
  /\ UNCHANGED sess
  /\ UNCHANGED seq_vars

TEstablishConnectionDone(t) ==
  /\ "establish_connection" \in task[t].awaiting
  /\ task' = [task EXCEPT ![t].awaiting =
                            Resume(t, "establish_connection", {"find_prompt"})]
  /\ UNCHANGED sess
  /\ UNCHANGED seq_vars

TFindPromptDone(t) ==
  /\ "find_prompt" \in task[t].awaiting
  /\ \E raw \in ConcPrompts :
       LET r == ParsePrompt(raw)
           o == FieldOwner(task[t].session)
           parsed == [sess EXCEPT ![o].base_prompt = r.prompt,
                                  ![o].current_context = r.context,
                                  ![o].base_pattern = BasePattern(r.prompt)]
       IN  IF r.ok
           THEN IF task[t].command_string = NoValue
                THEN /\ sess' = parsed
                     /\ task' = [task EXCEPT ![t].prompt = raw,
                                             ![t].awaiting =
                                               Resume(t, "find_prompt", {"enable"})]
                ELSE /\ sess' = AfterSendCommand(parsed, t,
                                   SendCommandReturn(task[t].output, raw))
                     /\ task' = [task EXCEPT ![t].prompt = raw,
                                             ![t].awaiting =
                                               Resume(t, "find_prompt", {})]
           ELSE /\ sess' = sess
                /\ task' = [task EXCEPT ![t].prompt = raw,
                                        ![t].error = "ValueError",
                                        ![t].awaiting = {}]
  /\ UNCHANGED seq_vars

TEnableDone(t) ==
  /\ "enable" \in task[t].awaiting
  /\ task' = [task EXCEPT ![t].awaiting = Resume(t, "enable", {"disable_paging"})]
  /\ UNCHANGED sess
  /\ UNCHANGED seq_vars

TDisablePagingDone(t) ==
  /\ "disable_paging" \in task[t].awaiting
  /\ task' = [task EXCEPT ![t].command_string = ShowMode,
                          ![t].awaiting = Resume(t, "disable_paging",
                                                 SendCommandAwaits(ShowMode))]
  /\ UNCHANGED sess
  /\ UNCHANGED seq_vars

TSendCommand(t) ==
  /\ task[t].awaiting = {}
  /\ sess[FieldOwner(task[t].session)].connected
  /\ \E cmd \in ConcCommands :
       task' = [task EXCEPT ![t] = [NewTask(task[t].session) EXCEPT
                                      !.op = "send_command",
                                      !.command_string = cmd,
                                      !.awaiting = SendCommandAwaits(cmd)]]
  /\ UNCHANGED sess
  /\ UNCHANGED seq_vars

TSendCommandBaseDone(t) ==
  /\ "send_command" \in task[t].awaiting
  /\ \E out \in ConcOutputs :
       IF NeedsRefresh(task[t].command_string)
       THEN /\ task' = [task EXCEPT ![t].output = out,
                                    ![t].awaiting =
                                      Resume(t, "send_command", {"find_prompt"})]
            /\ sess' = sess
       ELSE /\ task' = [task EXCEPT ![t].output = out,
                                    ![t].awaiting = Resume(t, "send_command", {})]
            /\ sess' = AfterSendCommand(sess, t,
                          SendCommandReturn(out, task[t].prompt))
  /\ UNCHANGED seq_vars

TStepRaises(t) ==
  /\ task[t].awaiting # {}
  /\ task' = [task EXCEPT ![t].awaiting = {}, ![t].error = "raised"]
  /\ UNCHANGED sess
  /\ UNCHANGED seq_vars

NextConc ==
  \/ \E t \in Tasks : TConnect(t)
  \/ \E t \in Tasks : TEstablishConnectionDone(t)
  \/ \E t \in Tasks : TFindPromptDone(t)
  \/ \E t \in Tasks : TEnableDone(t)
  \/ \E t \in Tasks : TDisablePagingDone(t)
  \/ \E t \in Tasks : TSendCommand(t)
  \/ \E t \in Tasks : TSendCommandBaseDone(t)
  \/ \E t \in Tasks : TStepRaises(t)

SpecConc == ConcInit /\ [][NextConc]_vars

-----------------------------------------------------------------------------
(* Vocabulary of the properties *)

Delimiters == {">", "#"}

\* Number of occurrences of event e in a log.
Count(l, e) == Cardinality({i \in 1..Len(l) : l[i] = e})

\* Number of occurrences of character c in a text.
Occurrences(s, c) == Cardinality({i \in 1..Len(s) : s[i] = c})

IsPrefix(s, t) == Len(s) <= Len(t) /\ s = SubSeq(t, 1, Len(s))

EndsWithDelimiter(s) == Len(s) > 0 /\ s[Len(s)] \in Delimiters

\* The calls and returns of a connect() that ran to its end.
ConnectOrder ==
  << "call:establish_connection", "ret:establish_connection",
     "call:find_prompt", "ret:find_prompt", "set_base_prompt",
     "call:enable", "ret:enable",
     "call:disable_paging", "ret:disable_paging",
     "call:send_command", "ret:send_command", "check_multiple_mode" >>

ConnectCalls == {"call:establish_connection", "call:find_prompt", "call:enable",
                 "call:disable_paging", "call:send_command"}

\* The log without the raise event that may end it.
Calls(l) == IF Len(l) > 0 /\ l[Len(l)] \notin Range(ConnectOrder) THEN ButLast(l) ELSE l

ConnectReturned == op = "connect" /\ pc = "idle" /\ error = NoError
ConnectRaised == op = "connect" /\ pc = "idle" /\ error # NoError
SendReturned == op = "send_command" /\ pc = "idle" /\ error = NoError

\* A _set_base_prompt of the running (or last) public coroutine read a prompt.
PromptRead == prompt # NoValue
ParseRaised == error.step = "set_base_prompt"

\* The fields describe the text before the last character of raw: NAME with
\* context "system" when raw has no '/', NAME '/' CTX otherwise.
IdentityOf(raw) ==
  /\ IF \E i \in 1..Len(raw) : raw[i] = "/"
     THEN /\ ButLast(raw) = base_prompt \o << "/" >> \o current_context
          /\ Occurrences(base_prompt, "/") = 0
          /\ Occurrences(current_context, "/") = 0
     ELSE /\ ButLast(raw) = base_prompt
          /\ current_context = SystemContext
  /\ base_pattern = ReEscape(Take(base_prompt, PrefixLen)) \o PatternMiddle
                      \o << ">", "|", "\\", "#", "]" >>

\* Number of _find_prompt calls after the base send_command returned.
RefreshCalls ==
  Cardinality({i \in 1..Len(log) :
                 /\ log[i] = "call:find_prompt"
                 /\ \E j \in 1..(i - 1) : log[j] = "ret:send_command"})

-----------------------------------------------------------------------------
(* Properties *)

\* C1: in every connect(), the collaborator steps run in the order
\* _establish_connection, _find_prompt and the parse, _enable,
\* _disable_paging, then the 'show mode' send; each is called once, each
\* starts after the previous one returned, and 'show mode' triggers no second
\* _find_prompt.
C1_ConnectOrder ==
  op = "connect" =>
    /\ IsPrefix(Calls(log), ConnectOrder)
    /\ \A c \in ConnectCalls : Count(log, c) <= 1
    /\ pc = "send_command" => base_args = << ShowMode, TRUE, TRUE >>
    /\ ConnectReturned =>
         /\ log = ConnectOrder
         /\ \A c \in ConnectCalls : Count(log, c) = 1
         /\ base_args[1] = ShowMode

C1_Witness == ConnectReturned /\ log = ConnectOrder /\ prompt = PromptAsaAdmin

\* A connect() that raised: the exception is the one of the step that was
\* running, nothing was called after it and nothing was called twice.
ConnectRaisedAtStep ==
  /\ \A c \in ConnectCalls : Count(log, c) <= 1
  /\ IsPrefix(ButLast(log), ConnectOrder) \/ IsPrefix(log, ConnectOrder)
  /\ IF ParseRaised
     THEN error.kind = "ValueError" /\ log[Len(log)] = "ret:find_prompt"
     ELSE /\ error.kind \in Errors
          /\ log[Len(log)] = "raise:" \o error.step
          /\ log[Len(log) - 1] = "call:" \o error.step

\* C2: a connect() that fails, fails with the error of the failing step, calls
\* no later step and retries none; a connect() that returns ran all five steps
\* and base_prompt, current_context, base_pattern and multiple_mode were all
\* assigned from this run.
C2_ConnectAllOrNothing ==
  /\ ConnectRaised => ConnectRaisedAtStep
  /\ ConnectReturned =>
       /\ log = ConnectOrder
       /\ PromptRead
       /\ IdentityOf(prompt)
       /\ multiple_mode = Contains(output, MultipleWord)

\* The part of C2 that does not depend on the assignment of multiple_mode.
ConnectAllOrNothingButMode ==
  /\ ConnectRaised => ConnectRaisedAtStep
  /\ ConnectReturned => log = ConnectOrder /\ PromptRead /\ IdentityOf(prompt)

\* C3: a send_command that returns has called _find_prompt once after the base
\* send when the command text contains "changet", and not at all otherwise,
\* whatever the device answered and whatever multiple_mode is.
C3_RefreshIffMarker ==
  (pc = "idle" /\ error = NoError /\ command_string # NoValue) =>
    /\ RefreshCalls = (IF Contains(command_string, ChangetMarker) THEN 1 ELSE 0)
    /\ Count(log, "ret:send_command") = 1

C3_Witness ==
  /\ SendReturned
  /\ command_string = CmdMention
  /\ RefreshCalls = 1
  /\ output = OutSingle
  /\ ~multiple_mode

\* C4: the value a send_command returns is the output the base send_command
\* returned for the same text and flags, with or without a refresh.
C4_ReturnsBaseOutput ==
  SendReturned =>
    /\ retval = output
    /\ output \in Outputs
    /\ base_args = << command_string, strip_prompt, strip_command >>

C4_Witness ==
  /\ SendReturned
  /\ PromptRead
  /\ retval = OutMultiple
  /\ ~strip_prompt
  /\ strip_command

\* C5: once a send_command whose text contains "changet" has returned,
\* base_prompt, current_context and base_pattern are those of the one raw
\* prompt its refresh read.
C5_RefreshedIdentity ==
  (SendReturned /\ Contains(command_string, ChangetMarker)) =>
    /\ PromptRead
    /\ Count(log, "call:find_prompt") = 1
    /\ IdentityOf(prompt)

C5_Witness ==
  /\ SendReturned
  /\ command_string = CmdChangeto
  /\ prompt = PromptAsa
  /\ pre.current_context # SystemContext
  /\ pre.base_prompt # base_prompt
  /\ IdentityOf(PromptAsa)

\* C6: a raw prompt NAME/CTX followed by one delimiter, no '/' in NAME or CTX,
\* is parsed to base_prompt = NAME and current_context = CTX.
C6_NameContext ==
  PromptRead =>
    \A i \in 1..Len(prompt) :
      (/\ prompt[i] = "/"
       /\ Occurrences(prompt, "/") = 1
       /\ EndsWithDelimiter(prompt))
      => /\ ~ParseRaised
         /\ base_prompt = SubSeq(prompt, 1, i - 1)
         /\ current_context = SubSeq(prompt, i + 1, Len(prompt) - 1)

C6_Witness ==
  /\ prompt = PromptAsaAdmin
  /\ base_prompt = << "c","i","s","c","o","a","s","a" >>
  /\ current_context = << "a","d","m","i","n" >>

\* C7: a raw prompt NAME followed by one delimiter, with no '/', is parsed to
\* base_prompt = NAME and current_context = "system", also when the session
\* was in a named context before.
C7_SystemContext ==
  (PromptRead /\ Occurrences(prompt, "/") = 0 /\ EndsWithDelimiter(prompt)) =>
    /\ ~ParseRaised
    /\ \E d \in Delimiters : prompt = base_prompt \o << d >>
    /\ current_context = SystemContext

C7_Witness ==
  /\ prompt = PromptAsaUser
  /\ pre.current_context = << "a","d","m","i","n" >>
  /\ current_context = SystemContext
  /\ base_prompt = << "c","i","s","c","o","a","s","a" >>

\* C8: a delimiter-terminated raw prompt with two or more '/' is parsed:
\* current_context is the text after the last '/' (delimiter stripped) and
\* base_prompt the text before that '/'.
C8_LastSlash ==
  (PromptRead /\ Occurrences(prompt, "/") >= 2 /\ EndsWithDelimiter(prompt)) =>
    /\ ~ParseRaised
    /\ \E i \in 1..Len(prompt) :
         /\ prompt[i] = "/"
         /\ \A j \in (i + 1)..Len(prompt) : prompt[j] # "/"
         /\ base_prompt = SubSeq(prompt, 1, i - 1)
         /\ current_context = SubSeq(prompt, i + 1, Len(prompt) - 1)

\* C9: after every connect() that returns, the first or a later one,
\* multiple_mode is true exactly when the answer to that connect's 'show mode'
\* contains "multiple".
C9_ModeIffMultiple ==
  ConnectReturned => (multiple_mode <=> Contains(output, MultipleWord))

\* C10: parsing a raw prompt whose last character is neither '>' nor '#'
\* raises, and assigns none of base_prompt, current_context, base_pattern.
C10_MalformedPromptRaises ==
  (PromptRead /\ ~EndsWithDelimiter(prompt)) =>
    /\ ParseRaised
    /\ base_prompt = pre.base_prompt
    /\ current_context = pre.current_context
    /\ base_pattern = pre.base_pattern

\* The text ends with a character class [...] in which every delimiter occurs.
EndsWithDelimiterClass(p) ==
  /\ Len(p) >= 2
  /\ p[Len(p)] = "]"
  /\ \E i \in 1..(Len(p) - 1) :
       /\ p[i] = "["
       /\ i > 1 => p[i - 1] # "\\"
       /\ \A k \in (i + 1)..(Len(p) - 1) : p[k] # "]" /\ p[k] # "["
       /\ \A d \in Delimiters : \E k \in (i + 1)..(Len(p) - 1) : p[k] = d

\* C13: after every successful parse, whatever the prompt, base_pattern ends
\* with a character class that contains both '>' and '#'.
C13_PatternClass ==
  /\ (PromptRead /\ ~ParseRaised) => base_pattern # << >>
  /\ base_pattern # << >> => EndsWithDelimiterClass(base_pattern)

C13_Witness ==
  /\ prompt = << "#", "a", "#" >>
  /\ base_prompt = << "#", "a" >>
  /\ EndsWithDelimiterClass(base_pattern)

\* C18: once a prompt has been parsed, base_pattern is always the escaped
\* first 12 characters of the current base_prompt followed by the fixed
\* suffix with the two delimiters, and depends on nothing else.
C18_PatternOfBasePrompt ==
  (base_pattern # << >> \/ (PromptRead /\ ~ParseRaised)) =>
    base_pattern =
      ReEscape(SubSeq(base_prompt, 1,
                      IF Len(base_prompt) < PrefixLen THEN Len(base_prompt) ELSE PrefixLen))
        \o PatternMiddle \o << ">", "|", "\\", "#", "]" >>

C18_Witness ==
  /\ prompt = PromptLongB
  /\ base_prompt = << "c","i","s","c","o","a","s","a","-","f","w","-","0","2" >>
  /\ pre.base_prompt = << "c","i","s","c","o","a","s","a","-","f","w","-","0","1" >>
  /\ pre.current_context # current_context
  /\ pre.base_pattern = base_pattern
  /\ base_pattern = << "c","i","s","c","o","a","s","a","\\","-","f","w","\\","-" >>
                      \o PatternMiddle \o << ">", "|", "\\", "#", "]" >>

\* C20: a raw prompt NAME/CTX(SUBMODE) followed by a delimiter is parsed to
\* base_prompt = NAME and current_context = CTX, without the parenthesised
\* sub-mode.
C20_SubmodeNotInContext ==
  PromptRead =>
    \A i \in 1..Len(prompt), j \in 1..Len(prompt) :
      (/\ prompt[i] = "/"
       /\ Occurrences(prompt, "/") = 1
       /\ i < j
       /\ prompt[j] = "("
       /\ Occurrences(prompt, "(") = 1
       /\ Len(prompt) >= j + 2
       /\ prompt[Len(prompt) - 1] = ")"
       /\ EndsWithDelimiter(prompt))
      => /\ ~ParseRaised
         /\ base_prompt = SubSeq(prompt, 1, i - 1)
         /\ current_context = SubSeq(prompt, i + 1, j - 1)

SendRaised == op = "send_command" /\ pc = "idle" /\ error # NoError

IdentityUnchanged ==
  /\ base_prompt = pre.base_prompt
  /\ current_context = pre.current_context
  /\ base_pattern = pre.base_pattern

\* The three fields of f are what a parse of raw leaves: the state after a
\* first parse of raw.
ParsedFrom(f, raw) ==
  /\ IF \E i \in 1..Len(raw) : raw[i] = "/"
     THEN /\ ButLast(raw) = f.base_prompt \o << "/" >> \o f.current_context
          /\ Occurrences(f.base_prompt, "/") = 0
          /\ Occurrences(f.current_context, "/") = 0
     ELSE /\ ButLast(raw) = f.base_prompt
          /\ f.current_context = SystemContext
  /\ f.base_pattern = ReEscape(Take(f.base_prompt, PrefixLen)) \o PatternMiddle
                        \o << ">", "|", "\\", "#", "]" >>

\* C14: parsing a raw prompt when the three fields are already those of a
\* parse of the same raw prompt (two refreshes in a row with an unchanged
\* device prompt) leaves base_prompt, current_context and base_pattern as
\* they were after the first parse.
C14_ParseIdempotent ==
  (PromptRead /\ ParsedFrom(pre, prompt)) => ~ParseRaised /\ IdentityUnchanged

C14_Witness ==
  /\ SendReturned
  /\ command_string = CmdChangeto
  /\ prompt = PromptAsaAdmin
  /\ ParsedFrom(pre, PromptAsaAdmin)
  /\ current_context = << "a","d","m","i","n" >>
  /\ IdentityUnchanged

ConnectOnlyEvents == {"call:establish_connection", "call:enable",
                      "call:disable_paging", "check_multiple_mode"}

\* C17: a send_command on a connected session, with or without the marker,
\* 'show mode' included, leaves multiple_mode alone and calls none of
\* _establish_connection, _enable, _disable_paging or the mode check.
C17_SendCommandFrame ==
  op = "send_command" =>
    /\ multiple_mode = pre.multiple_mode
    /\ connected
    /\ \A i \in 1..Len(log) : log[i] \notin ConnectOnlyEvents

C17_Witness ==
  /\ SendReturned
  /\ command_string = ShowMode
  /\ output = OutMultiple
  /\ ~multiple_mode

\* C19: a send_command that raises leaves base_prompt, current_context and
\* base_pattern as they were at the call: when the base send raises, its error
\* leaves send_command and _find_prompt is not called; when the refresh's
\* _find_prompt or parse raises, that error leaves send_command.
C19_FailedSendKeepsIdentity ==
  SendRaised =>
    /\ IdentityUnchanged
    /\ error.step \in {"send_command", "find_prompt", "set_base_prompt"}
    /\ error.step = "send_command" =>
         /\ error.kind \in Errors
         /\ Count(log, "call:find_prompt") = 0
         /\ output = NoValue
    /\ error.step = "find_prompt" =>
         /\ error.kind \in Errors
         /\ output \in Outputs
         /\ ~PromptRead
    /\ error.step = "set_base_prompt" =>
         /\ error.kind = "ValueError"
         /\ output \in Outputs
         /\ PromptRead

C19_Witness ==
  /\ SendRaised
  /\ error.step = "set_base_prompt"
  /\ command_string = CmdChangeto
  /\ prompt = PromptTwoSlash
  /\ base_prompt = << "c","i","s","c","o","a","s","a" >>
  /\ IdentityUnchanged

\* C15: _get_default_command returns the fixed literal of each recognised
\* name ('>' and '#' for the two delimiters) and raises, returning nothing,
\* for every other name.
C15_CatalogLookup ==
  lookup # NoLookup =>
    /\ lookup.command \in
         {"delimeter1", "delimeter2", "pattern", "disable_paging", "priv_enter",
          "priv_exit", "config_enter", "config_exit", "config_check",
          "check_config_mode"}
         => lookup.raised = "none" /\ lookup.value # NoValue /\ Len(lookup.value) > 0
    /\ lookup.command \notin
         {"delimeter1", "delimeter2", "pattern", "disable_paging", "priv_enter",
          "priv_exit", "config_enter", "config_exit", "config_check",
          "check_config_mode"}
         => lookup.raised = "KeyError" /\ lookup.value = NoValue
    /\ lookup.command = "delimeter1" => lookup.value = << ">" >>
    /\ lookup.command = "delimeter2" => lookup.value = << "#" >>
    /\ lookup.command = "priv_enter" => lookup.value = << "e","n","a","b","l","e" >>
    /\ lookup.command = "priv_exit" => lookup.value = << "d","i","s","a","b","l","e" >>
    /\ lookup.command = "config_exit" => lookup.value = << "e","n","d" >>
    /\ lookup.command \in {"config_check", "check_config_mode"}
         => lookup.value = << ")", "#" >>

C15_Witness ==
  /\ lookup.command = "delimiter1"
  /\ lookup.raised = "KeyError"
  /\ lookup.value = NoValue
  /\ connected

\* Callers with a coroutine in progress on object s.
ActiveOn(s) == {t \in Tasks : task[t].session = s /\ task[t].awaiting # {}}

\* Collaborator coroutines in flight on object s.
InFlight(s) == {c \in Tasks \X {"establish_connection", "find_prompt", "enable",
                                "disable_paging", "send_command"} :
                  task[c[1]].session = s /\ c[2] \in task[c[1]].awaiting}

\* C11 (as stated): on one session, whoever the callers are, at most one
\* command is in flight at any time.
C11_OneCommandInFlight ==
  \A s \in Sessions : Cardinality(InFlight(s)) <= 1

\* C11 (amended): on a session whose callers do not overlap their calls, at
\* most one command is in flight, and the refresh's _find_prompt of a
\* send_command runs only after the base send of that send_command returned.
C11_OneInFlightWithoutOverlap ==
  /\ \A s \in Sessions :
       Cardinality(ActiveOn(s)) <= 1 => Cardinality(InFlight(s)) <= 1
  /\ \A t \in Tasks :
       ("find_prompt" \in task[t].awaiting /\ task[t].command_string # NoValue)
         => task[t].output # NoValue /\ "send_command" \notin task[t].awaiting

C11_Witness ==
  /\ task[1].session = task[2].session
  /\ task[1].op = "send_command"
  /\ task[1].awaiting = {"find_prompt"}
  /\ task[1].output = OutSingle
  /\ task[2].op = "send_command"
  /\ task[2].awaiting = {}
  /\ task[2].output # NoValue

\* C12: with two sessions whose operations interleave, an operation on one
\* session changes no field of the other, and the fields of each session are
\* those of the last prompt its own caller parsed.
C12_SessionsIndependent ==
  /\ [][\A t \in Tasks :
          task'[t] # task[t] =>
            \A s \in Sessions \ {task[t].session} : sess'[s] = sess[s]]_vars
  /\ [](\A t \in Tasks :
          (/\ \A u \in Tasks \ {t} : task[u].session # task[t].session
           /\ task[t].prompt # NoValue
           /\ task[t].error # "ValueError")
          => ParsedFrom(sess[task[t].session], task[t].prompt))

C12_Witness ==
  /\ task[1].session = 1
  /\ task[2].session = 2
  /\ task[1].awaiting = {"enable"}
  /\ task[2].awaiting = {"find_prompt"}
  /\ task[2].op = "send_command"
  /\ sess[1].current_context = << "a","d","m","i","n" >>
  /\ sess[2].current_context = SystemContext
  /\ sess[2].base_pattern # << >>
  /\ sess[2].multiple_mode
  /\ ~sess[1].multiple_mode

====
